---------------------------- MODULE Spec2Model ----------------------------
(***************************************************************************)
(* Model of the partition / submit / reconcile control loop of boostedhh:  *)
(*   - condor/check_jobs.py            (the Reconciler scan)               *)
(*   - src/boostedhh/submit_utils.py   (revision gate, planner, submitter) *)
(*   - src/boostedhh/run_utils.py      (get_fileset, run: OutputBatcher)   *)
(* A behaviour runs one of the programs, prog says which: the scan, which  *)
(* may be run again over the same working directory; the submitter; the    *)
(* batcher; two executions of one shard copying their outputs to the       *)
(* remote store, followed by a scan of that shard; or the writing of the   *)
(* names of one shard followed by their parsing.                           *)
(* File names are modelled as the token sequence obtained by               *)
(* splitting the name at "_" (a sample name holding underscores is a       *)
(* sequence of several tokens), with the extension kept apart.             *)
(***************************************************************************)
EXTENDS Integers, Sequences, FiniteSets, TLC

VARIABLES
    prog,             \* which program this behaviour executes
    pc,               \* position of the program
    \* ---- check_jobs.py
    args,             \* parsed command line
    condor_dir,       \* files of condor/<processor>/<tag>/ on the local disk
    sh_sizes,         \* launcher on the local disk -> the batch size its text holds
    samples,          \* listdir(xrddir)
    jdl_dict,         \* sample -> highest descriptor index + 1
    running_jobs,     \* identifiers read from condor_q
    running_txt,      \* lines of the file running_jobs.txt in the working directory
    si,               \* position of the sample loop in samples (1-based)
    i,                \* loop variable of the per-shard loops
    dirs,             \* which directories the scan found for the current sample
    expected_parquets,\* manifest entries read for the shard under examination
    outs_parquet,     \* batch indices listed for the shard under examination
    outs_pickles,     \* pickle indices listed for the shard under examination
    printed,          \* what the scan printed about the shard examined last
    missing_files,    \* descriptors to re-run, in order
    err_files,        \* matching error logs, in order
    submitted,        \* condor_submit calls made, in order
    \* ---- submit_utils.py
    git,              \* what the git commands of check_branch answer
    fileset,          \* the (sample, subsample, number of files) entries given to submit()
    templ,            \* the placeholders of the descriptor and the launcher template
    before,           \* the local disk as an earlier call of submit() left it
    fi,               \* position of the subsample loops in fileset (1-based)
    j,                \* loop variable of the job loop
    nsubmit,          \* jobs counted by submit()
    descriptors,      \* descriptor file -> the arguments it was rendered with
    launchers,        \* launcher file -> the arguments it was rendered with
    logs,             \* submission logs <descriptor>.log on the local disk
    stdout,           \* messages printed by check_branch
    proxy,            \* proxy path resolved by init_args
    rendered,         \* the files written by write_template in this run, in order
    exit_code,        \* exit status of the process, -1 while it runs
    \* ---- run_utils.py
    leftover,         \* fragments an earlier execution left in ./outparquet
    outparquet,       \* fragments in the local directory ./outparquet
    parquet_files,    \* the fragments as listed by glob
    num_batches,      \* number of batches computed by run()
    outfiles,         \* pickles written to ./outfiles
    manifest,         \* num_batches_<filetag>.txt files and their text
    batch_files,      \* consolidated batch files and the fragments they hold
    slept,            \* number of one-minute waits
    \* ---- the remote store shared by the executions of a shard
    store,            \* unit of a sample in the remote store -> its content
    todo              \* execution -> the units it has still to copy, in order

scanOnly == <<samples, jdl_dict, running_jobs, running_txt, si, dirs, expected_parquets,
              outs_parquet, outs_pickles, printed, missing_files, err_files>>

scanVars == <<args, condor_dir, sh_sizes, i, submitted, scanOnly>>

submitVars == <<git, fileset, templ, before, fi, j, nsubmit, descriptors, launchers, logs,
                stdout, proxy, rendered, exit_code>>

runVars == <<leftover, outparquet, parquet_files, num_batches, outfiles, manifest,
             batch_files, slept>>

dupVars == <<store, todo>>

vars == <<prog, pc, scanVars, submitVars, runVars, dupVars>>

-----------------------------------------------------------------------------
(* Bounds of the model *)

\* most descriptors a (year, sample) has on disk
MaxJobs == 2
\* largest manifest count; batch indices range over 0..MaxBatches-1
MaxBatches == 2
\* most input files of a subsample
MaxFiles == 5
\* largest --files-per-job
MaxPerJob == 2
\* most fragments a shard produces
MaxFragments == 4
\* largest --batch-size
MaxBatchSize == 3
\* most fragments of a shard that is executed twice at the same time
MaxDupFragments == 2

-----------------------------------------------------------------------------
(* Names *)

Range(s) == {s[k] : k \in 1..Len(s)}

Max(S) == CHOOSE m \in S : \A x \in S : x <= m

\* decimal rendering of an index by an f-string, and int() of such a token
Digits == <<"0", "1", "2", "3", "4", "5", "6", "7", "8", "9">>
Str(n) == Digits[n + 1]
ToInt(s) == CHOOSE n \in 0..(Len(Digits) - 1) : Digits[n + 1] = s

Samples == {<<"QCD">>, <<"QCD", "HT">>}
Year == "2022"
OtherYear == "2023"

\* f"{year}_{sample}_{i}", split at "_"
JobName(year, sample, n) == <<year>> \o sample \o <<Str(n)>>

File(name, ext) == [name |-> name, ext |-> ext]

\* the files submit() leaves in condor/<processor>/<tag>/ for n shards
Artifacts(year, sample, n) ==
    UNION {{File(JobName(year, sample, m), "jdl"), File(JobName(year, sample, m), "sh")}
           : m \in 0..(n - 1)}

Dict(keys, val) == [k \in keys |-> val]

-----------------------------------------------------------------------------
(* check_jobs.py: pure parts *)

\* line 60: the descriptors among the files of the local directory
Jdls(dir) == {f \in dir : f.ext = "jdl"}

\* a variant of lines 64-68 that compares only the first word of the sample name
JdlIndicesFirstWord(jdls, year, sample) ==
    {ToInt(f.name[Len(f.name)]) :
        f \in {g \in jdls : /\ g.name[1] = year
                             /\ g.name[2] = sample[1]}}

\* lines 64-68: the shard indices of the descriptors of (year, sample)
JdlIndices(jdls, year, sample) ==
    {ToInt(f.name[Len(f.name)]) :
        f \in {g \in jdls : /\ g.name[1] = year
                             /\ SubSeq(g.name, 2, Len(g.name) - 1) = sample}}

\* a variant of line 70 that takes the highest index itself as the shard count
JdlDictHighest(smpls, jdls, year) ==
    [s \in {t \in Range(smpls) : JdlIndices(jdls, year, t) # {}}
        |-> Max(JdlIndices(jdls, year, s))]

\* lines 62-70: sample -> highest descriptor index + 1, for samples with descriptors
JdlDict(smpls, jdls, year) ==
    [s \in {t \in Range(smpls) : JdlIndices(jdls, year, t) # {}}
        |-> Max(JdlIndices(jdls, year, s)) + 1]

\* line 93: the launcher names among the lines of condor_q, ".sh" stripped
RunningJobs(lines) == {l.name : l \in {x \in lines : x.ext = "sh"}}

\* a variant of the test of lines 111, 171 that leaves the year out of the identifier
IsRunningNoYear(running, year, sample, n) == (sample \o <<Str(n)>>) \in running

\* lines 111, 171: f"{args.year}_{sample}_{i}" in running_jobs
IsRunning(running, year, sample, n) == JobName(year, sample, n) \in running

\* a variant of lines 87-93 that reads running_jobs.txt whether or not this scan
\* wrote it
ReadRunningStale(check_running, txt) == RunningJobs(txt)

\* lines 87-93: running_jobs stays [] unless --check-running asks for the queue
ReadRunning(check_running, txt) == IF check_running THEN RunningJobs(txt) ELSE {}

\* a variant of lines 116, 185 that names the error log of shard 0 of the sample
err_file_first(year, sample, n) == File(JobName(year, sample, 0), "err")

\* lines 115-116, 184-185
jdl_file(year, sample, n) == File(JobName(year, sample, n), "jdl")
err_file(year, sample, n) == File(JobName(year, sample, n), "err")

\* lines 159-168: the two checks of one shard
CheckPickles(n, pickles) == n \in pickles

MissingBatches(n, expected, parquet) ==
    {b \in 0..(expected[n] - 1) : b \notin parquet[n]}

CheckParquet(processor, n, expected, parquet) ==
    IF processor = "trigger" THEN TRUE
    ELSE IF n \notin DOMAIN parquet THEN FALSE
    ELSE MissingBatches(n, expected, parquet) = {}

\* line 166 raises KeyError: batches listed for the shard, no manifest read for it
ManifestKeyError(processor, n, expected, parquet) ==
    /\ processor # "trigger"
    /\ n \in DOMAIN parquet
    /\ n \notin DOMAIN expected

\* lines 110-113: the shards of a sample without parquet directory that are
\* reported, in the order of the loop
NotRunning(running, year, sample, n) ==
    SelectSeq([k \in 1..n |-> k - 1],
              LAMBDA m : ~IsRunning(running, year, sample, m))

-----------------------------------------------------------------------------
(* check_jobs.py: the scan *)

Processors == {"trigger", "skimmer"}

\* the entries a listing can hold for shard n
PickleListings(n) == SUBSET {n}
ManifestListings(n) == {Dict({}, 0)} \cup {Dict({n}, m) : m \in 0..MaxBatches}
BatchListings(n) ==
    {Dict({}, {})} \cup {Dict({n}, b) : b \in (SUBSET (0..(MaxBatches - 1))) \ {{}}}

\* condor_q prints header lines, then one line per job, of which none, one or
\* all shards of the scanned year are running
QueueHeader == {File(<<"OWNER">>, "")}
JobLines ==
    {File(JobName(Year, p[1], p[2]), "sh") : p \in Samples \X (0..(MaxJobs - 1))}
Queues == {QueueHeader} \cup {QueueHeader \cup {l} : l \in JobLines}
              \cup {QueueHeader \cup JobLines}

\* listdir(xrddir): the sample directories of the remote store, in any order
Listings ==
    {<<>>} \cup {<<s>> : s \in Samples}
           \cup {<<p[1], p[2]>> : p \in {q \in Samples \X Samples : q[1] # q[2]}}

NoPrint == [running |-> FALSE, pickle |-> FALSE, all |-> FALSE, batches |-> {}]
NoDirs == [parquet |-> FALSE, jobchecks |-> FALSE, pickles |-> FALSE]

\* line 36: --change-batch-size is None unless given, and an int when given
None == <<>>
Some(n) == <<n>>

\* the batch size the launchers were rendered with, and the one asked for on the
\* command line of the scan
OldBatchSize == 2
NewBatchSize == 1

\* the launchers among the files of the local directory
Launchers(dir) == {f \in dir : f.ext = "sh"}

\* line 205: f.replace(".jdl", ".sh")
ShFile(f) == File(f.name, "sh")

\* line 207: replace_batch_size(shfile, n) puts n in the place of the batch size
\* in the text of the launcher (every descriptor of the model has its launcher)
replace_batch_size(sizes, shfile, n) ==
    IF shfile \in DOMAIN sizes THEN [sizes EXCEPT ![shfile] = n] ELSE sizes

\* lines 204-207: the launchers of the resubmission list, rewritten in list order
RECURSIVE ChangeBatchSize(_, _, _)
ChangeBatchSize(sizes, files, n) ==
    IF files = <<>> THEN sizes
    ELSE ChangeBatchSize(replace_batch_size(sizes, ShFile(Head(files)), n),
                         Tail(files), n)

\* no earlier call of submit() in this process
NoCall == [called |-> FALSE, descriptors |-> <<>>, launchers |-> <<>>, condor_dir |-> {}]

\* the variables of the programs that do not run in a behaviour
ScanIdle ==
    /\ sh_sizes = <<>>
    /\ samples = <<>>
    /\ jdl_dict = Dict({}, 0)
    /\ running_jobs = {}
    /\ running_txt = {}
    /\ si = 1
    /\ dirs = NoDirs
    /\ expected_parquets = Dict({}, 0)
    /\ outs_parquet = Dict({}, {})
    /\ outs_pickles = {}
    /\ printed = NoPrint
    /\ missing_files = <<>>
    /\ err_files = <<>>

SubmitIdle ==
    /\ git = [branch_exists |-> TRUE, uncommitted |-> FALSE, remote_matches |-> TRUE]
    /\ fileset = <<>>
    /\ templ = [jdl |-> {}, sh |-> {}]
    /\ before = NoCall
    /\ fi = 1
    /\ j = 0
    /\ nsubmit = 0
    /\ descriptors = Dict({}, 0)
    /\ launchers = Dict({}, 0)
    /\ logs = {}
    /\ stdout = <<>>
    /\ proxy = ""
    /\ rendered = <<>>
    /\ exit_code = -1

RunIdle ==
    /\ leftover = {}
    /\ outparquet = {}
    /\ parquet_files = <<>>
    /\ num_batches = 0
    /\ outfiles = {}
    /\ manifest = Dict({}, "")
    /\ batch_files = Dict({}, <<>>)
    /\ slept = 0

DupIdle ==
    /\ store = Dict({}, "")
    /\ todo = Dict({}, <<>>)

\* a scan about to start, its --change-batch-size option drawn from sizes
InitScan(sizes) ==
    /\ SubmitIdle
    /\ RunIdle
    /\ DupIdle
    /\ prog = "check"
    /\ pc = "start"
    /\ args \in [processor : Processors, year : {Year},
                  submit_missing : BOOLEAN, check_running : BOOLEAN,
                  change_batch_size : sizes]
    /\ \E nj \in [Samples -> 0..MaxJobs], other \in {0, MaxJobs} :
          condor_dir = {File(<<"logs">>, "")}
              \cup UNION {Artifacts(Year, s, nj[s]) : s \in Samples}
              \cup Artifacts(OtherYear, <<"QCD">>, other)
    /\ sh_sizes = Dict(Launchers(condor_dir), OldBatchSize)
    /\ samples = <<>>
    /\ jdl_dict = Dict({}, 0)
    /\ running_jobs = {}
    /\ running_txt = {}
    /\ si = 1
    /\ i = -1
    /\ dirs = NoDirs
    /\ expected_parquets = Dict({}, 0)
    /\ outs_parquet = Dict({}, {})
    /\ outs_pickles = {}
    /\ printed = NoPrint
    /\ missing_files = <<>>
    /\ err_files = <<>>
    /\ submitted = <<>>

\* a scan run without --change-batch-size (line 36: default None)
InitCheck == InitScan({None})

\* a scan run with or without --change-batch-size
InitResize == InitScan({None, Some(NewBatchSize)})

\* lines 59-97
Setup ==
    /\ prog = "check" /\ pc = "start"
    /\ \E listing \in Listings, queue \in Queues :
          /\ samples' = listing
          /\ jdl_dict' = JdlDict(listing, Jdls(condor_dir), args.year)
          /\ running_txt' = IF args.check_running THEN queue ELSE running_txt
          /\ running_jobs' = ReadRunning(args.check_running, running_txt')
          /\ pc' = IF Len(listing) = 0 THEN "report" ELSE "sample"
    /\ missing_files' = <<>>
    /\ err_files' = <<>>
    /\ UNCHANGED <<prog, dupVars, submitVars, runVars, args, condor_dir, sh_sizes, si, i, dirs, expected_parquets,
                   outs_parquet, outs_pickles, printed, submitted>>

\* "continue" / end of the body of the loop of line 100
NextSample ==
    /\ si' = si + 1
    /\ pc' = IF si + 1 > Len(samples) THEN "report" ELSE "sample"

\* lines 115-121, 184-189: record a shard and resubmit it if asked to
Flag(sample, shards) ==
    /\ missing_files' = missing_files \o
           [k \in 1..Len(shards) |-> jdl_file(args.year, sample, shards[k])]
    /\ err_files' = err_files \o
           [k \in 1..Len(shards) |-> err_file(args.year, sample, shards[k])]
    /\ submitted' = IF args.submit_missing
                     THEN submitted \o
                            [k \in 1..Len(shards) |-> jdl_file(args.year, sample, shards[k])]
                     ELSE submitted

\* lines 100-157: the body of the sample loop up to the per-shard loop
BeginSample ==
    /\ prog = "check" /\ pc = "sample"
    /\ \E d \in [parquet : BOOLEAN, jobchecks : BOOLEAN, pickles : BOOLEAN] :
        LET sample == samples[si] IN
        /\ dirs' = d
        /\ expected_parquets' = Dict({}, 0)
        /\ outs_parquet' = Dict({}, {})
        /\ outs_pickles' = {}
        /\ printed' = NoPrint
        /\ IF args.processor # "trigger" /\ ~d.parquet
           THEN \* lines 105-123
                IF sample \notin DOMAIN jdl_dict
                THEN /\ NextSample
                     /\ UNCHANGED <<i, missing_files, err_files, submitted>>
                ELSE /\ Flag(sample, NotRunning(running_jobs, args.year, sample,
                                                jdl_dict[sample]))
                     /\ i' = jdl_dict[sample] - 1
                     /\ NextSample
           ELSE IF args.processor # "trigger" /\ ~d.jobchecks
           THEN \* line 125 raises FileNotFoundError
                /\ pc' = "aborted"
                /\ UNCHANGED <<si, i, missing_files, err_files, submitted>>
           ELSE IF ~d.pickles
           THEN \* lines 147-149
                /\ NextSample
                /\ UNCHANGED <<i, missing_files, err_files, submitted>>
           ELSE IF sample \notin DOMAIN jdl_dict
           THEN \* line 158 raises KeyError
                /\ pc' = "aborted"
                /\ UNCHANGED <<si, i, missing_files, err_files, submitted>>
           ELSE /\ pc' = "shard"
                /\ i' = 0
                /\ UNCHANGED <<si, missing_files, err_files, submitted>>
    /\ UNCHANGED <<prog, dupVars, submitVars, runVars, args, condor_dir, sh_sizes, samples, jdl_dict, running_jobs, running_txt>>

\* lines 159-189: the body of the per-shard loop, for shard i
CheckShard ==
    /\ prog = "check" /\ pc = "shard"
    /\ LET sample == samples[si]
           trigger == args.processor = "trigger"
       IN
       \E op \in PickleListings(i),
          ep \in IF trigger THEN {Dict({}, 0)} ELSE ManifestListings(i),
          oq \in IF trigger THEN {Dict({}, {})} ELSE BatchListings(i) :
         /\ outs_pickles' = op
         /\ expected_parquets' = ep
         /\ outs_parquet' = oq
         /\ IF ManifestKeyError(args.processor, i, ep, oq)
            THEN /\ pc' = "aborted"
                 /\ printed' = NoPrint
                 /\ UNCHANGED <<missing_files, err_files, submitted>>
            ELSE LET check_pickles == CheckPickles(i, op)
                     check_parquet == CheckParquet(args.processor, i, ep, oq)
                     running == IsRunning(running_jobs, args.year, sample, i)
                     bad == ~check_pickles \/ ~check_parquet
                 IN
                 /\ printed' =
                       IF ~bad THEN NoPrint
                       ELSE IF running
                       THEN [NoPrint EXCEPT !.running = TRUE]
                       ELSE [running |-> FALSE,
                             pickle |-> ~check_pickles,
                             all |-> ~check_parquet /\ i \notin DOMAIN oq,
                             batches |-> IF ~check_parquet /\ i \in DOMAIN oq
                                         THEN MissingBatches(i, ep, oq) ELSE {}]
                 /\ IF bad /\ ~running
                    THEN Flag(sample, <<i>>)
                    ELSE UNCHANGED <<missing_files, err_files, submitted>>
                 /\ pc' = "checked"
    /\ UNCHANGED <<prog, dupVars, submitVars, runVars, args, condor_dir, sh_sizes, samples, jdl_dict, running_jobs, running_txt, si, i, dirs>>

\* line 158: the for statement takes the next shard, or ends the loop and
\* with it the body of the sample loop
NextShard ==
    /\ prog = "check" /\ pc = "checked"
    /\ expected_parquets' = Dict({}, 0)
    /\ outs_parquet' = Dict({}, {})
    /\ outs_pickles' = {}
    /\ printed' = NoPrint
    /\ IF i + 1 < jdl_dict[samples[si]]
       THEN /\ i' = i + 1
            /\ pc' = "shard"
            /\ si' = si
       ELSE /\ NextSample
            /\ i' = i
    /\ UNCHANGED <<prog, dupVars, submitVars, runVars, args, condor_dir, sh_sizes, samples, jdl_dict, running_jobs, running_txt, dirs,
                   missing_files, err_files, submitted>>

\* lines 192-211
Report ==
    /\ prog = "check" /\ pc = "report"
    /\ sh_sizes' = IF args.change_batch_size # None
                   THEN ChangeBatchSize(sh_sizes, missing_files, args.change_batch_size[1])
                   ELSE sh_sizes
    /\ pc' = "done"
    /\ UNCHANGED <<prog, dupVars, submitVars, runVars, args, condor_dir, i, submitted, scanOnly>>

\* the script is run again: a new process whose variables start afresh (lines
\* 87, 96-97), with its own command line, over the files the last run left
Rescan ==
    /\ prog = "check" /\ pc = "done"
    /\ \E check_running \in BOOLEAN :
          args' = [args EXCEPT !.check_running = check_running]
    /\ pc' = "start"
    /\ samples' = <<>>
    /\ jdl_dict' = Dict({}, 0)
    /\ running_jobs' = {}
    /\ si' = 1
    /\ i' = -1
    /\ dirs' = NoDirs
    /\ expected_parquets' = Dict({}, 0)
    /\ outs_parquet' = Dict({}, {})
    /\ outs_pickles' = {}
    /\ printed' = NoPrint
    /\ missing_files' = <<>>
    /\ err_files' = <<>>
    /\ submitted' = <<>>
    /\ UNCHANGED <<prog, dupVars, submitVars, runVars, condor_dir, sh_sizes, running_txt>>

-----------------------------------------------------------------------------
(* submit_utils.py: check_branch, init_args, submit; run_utils.py: get_fileset *)

\* lines 109-116: uncommitted local changes stop the run unless overridden
UncommittedRefused(g, allow_diff_local_repo) ==
    g.uncommitted /\ ~allow_diff_local_repo

\* a variant of lines 122-130 that never compares the two commit hashes
HashRefusedNever(g, allow_diff_local_repo) == FALSE

\* lines 122-130: differing local and remote hashes stop the run unless overridden
HashRefused(g, allow_diff_local_repo) ==
    ~g.remote_matches /\ ~allow_diff_local_repo

MsgUncommitted == "There are local changes that have not been committed!"
MsgMismatch == "Latest local and github commits do not match!"
MsgProceed == "Proceeding anyway..."
MsgExit == "Exiting! Use the --allow-diff-local-repo option to override this."

\* lines 104-130: what check_branch prints when the branch exists
BranchMessages(g, allow_diff_local_repo) ==
    (IF g.uncommitted
     THEN <<MsgUncommitted, IF allow_diff_local_repo THEN MsgProceed ELSE MsgExit>>
     ELSE <<>>)
    \o
    (IF ~UncommittedRefused(g, allow_diff_local_repo) /\ ~g.remote_matches
     THEN <<MsgMismatch, IF allow_diff_local_repo THEN MsgProceed ELSE MsgExit>>
     ELSE <<>>)

\* os.environ as init_args reads it
Envs == [USER : {"rkansal", "dprimosc", "lumori", "someone"},
         X509_USER_PROXY : {"", "/tmp/x509up_u0"}]

\* lines 138-151: the proxy of the site, or the error the lookup ends in
ResolveProxy(site, env) ==
    IF site = "lpc"
    THEN IF env.X509_USER_PROXY = ""
         THEN [ok |-> FALSE, proxy |-> ""]
         ELSE [ok |-> TRUE, proxy |-> env.X509_USER_PROXY]
    ELSE IF env.USER = "rkansal"
         THEN [ok |-> TRUE, proxy |-> "/home/users/rkansal/x509up_u31735"]
    ELSE IF env.USER = "dprimosc"
         THEN [ok |-> TRUE, proxy |-> "/tmp/x509up_u150012"]
    ELSE IF env.USER = "lumori"
         THEN [ok |-> TRUE, proxy |-> "/tmp/x509up_u81981"]
    ELSE [ok |-> FALSE, proxy |-> ""]

\* a variant of line 198 that divides with // instead of taking the ceiling
NJobsFloor(tot_files, files_per_job) == tot_files \div files_per_job

\* line 198: ceil(tot_files / args.files_per_job)
NJobs(tot_files, files_per_job) ==
    IF tot_files % files_per_job = 0
    THEN tot_files \div files_per_job
    ELSE (tot_files \div files_per_job) + 1

\* a variant of line 206 that numbers a descriptor after the descriptors of
\* the subsample already on disk
JdlArgsNextFree(local_dir, year, subsample, jobid, prx) ==
    [dir |-> local_dir, prefix |-> <<year>> \o subsample,
     jobid |-> Cardinality(JdlIndices(Jdls(condor_dir), year, subsample)), proxy |-> prx]

\* lines 206, 210-233: the template arguments of shard jobid
JdlArgs(local_dir, year, subsample, jobid, prx) ==
    [dir |-> local_dir, prefix |-> <<year>> \o subsample, jobid |-> jobid, proxy |-> prx]

ShArgs(year, sample, subsample, jobid, files_per_job) ==
    [year |-> year, sample |-> sample, subsample |-> subsample,
     starti |-> jobid * files_per_job, endi |-> (jobid + 1) * files_per_job,
     filetag |-> jobid, jobnum |-> jobid, mode |-> "u+x"]

\* line 237: f"{localcondor}.log"
LogOf(f) == File(f.name, "jdl.log")

\* a Python slice s[a:b] of a list
SliceIndex(x, n) == IF x < 0 THEN (IF x + n < 0 THEN 0 ELSE x + n)
                    ELSE (IF x > n THEN n ELSE x)

PySlice(s, a, b) ==
    LET lo == SliceIndex(a, Len(s))
        hi == SliceIndex(b, Len(s))
    IN IF lo >= hi THEN <<>> ELSE SubSeq(s, lo + 1, hi)

\* a variant of line 70 of run_utils.py that takes the end index as inclusive
RunFnamesInclusive(fnames, starti, endi) ==
    IF endi < 0 THEN PySlice(fnames, starti, Len(fnames))
    ELSE PySlice(fnames, starti, endi + 1)

\* run_utils.py line 70: the files of a shard
RunFnames(fnames, starti, endi) ==
    IF endi < 0 THEN PySlice(fnames, starti, Len(fnames))
    ELSE PySlice(fnames, starti, endi)

\* the ordered file list of a subsample with tot_files files (run_utils.py line 63)
Fnames(tot_files) == [k \in 1..tot_files |-> k]

\* a variant of line 40 that leaves unknown placeholders in place
\* (Template.safe_substitute)
SubstitutesSafely(placeholders, templ_args) == TRUE

\* line 40: Template.substitute raises KeyError unless every placeholder of the
\* template is a key of templ_args
Substitutes(placeholders, templ_args) == placeholders \subseteq DOMAIN templ_args

\* the content of a file that was opened for writing and not written (line 39)
Truncated == <<>>

\* the placeholder sets of submit.templ.jdl and submit.templ.sh: the keys
\* submit() provides, or one key more
JdlKeys == DOMAIN JdlArgs("", "", <<>>, 0, "")
ShKeys == DOMAIN ShArgs("", "", <<>>, 0, 1) \ {"mode"}
Templates == [jdl : {JdlKeys, JdlKeys \cup {"memory"}},
              sh : {ShKeys, ShKeys \cup {"batch_size"}}]

\* the filesets submit() is given: subsamples in any order, each with its file count
Filesets ==
    UNION {{[k \in 1..Len(l) |-> [sample |-> "QCD", subsample |-> l[k], tot_files |-> f[k]]]
               : f \in [1..Len(l) -> 0..MaxFiles]}
           : l \in Listings}

\* the submission log of a shard of another year, which no plan of Year renders
StrayLog == LogOf(File(JobName(OtherYear, <<"QCD">>, 0), "jdl"))

\* the plans of subsample QCD an earlier run of submit() can have left on disk:
\* all files in one shard, or one file per shard
PriorPlans == {[njobs |-> 1, files_per_job |-> MaxFiles],
               [njobs |-> MaxFiles, files_per_job |-> 1]}

PriorDescriptors(prior) ==
    [f \in {File(JobName(Year, <<"QCD">>, m), "jdl") : m \in 0..(prior.njobs - 1)} |->
        JdlArgs("condor", Year, <<"QCD">>, ToInt(f.name[Len(f.name)]), "/tmp/x509up_u0")]

PriorLaunchers(prior) ==
    [f \in {File(JobName(Year, <<"QCD">>, m), "sh") : m \in 0..(prior.njobs - 1)} |->
        ShArgs(Year, "QCD", <<"QCD">>, ToInt(f.name[Len(f.name)]), prior.files_per_job)]

\* the submission logs the shards of an earlier plan left, and the stray one
PriorLogs(prior) ==
    {LogOf(File(JobName(Year, <<"QCD">>, m), "jdl")) : m \in 0..(prior.njobs - 1)}
        \cup {StrayLog}

InitSubmit ==
    /\ ScanIdle
    /\ RunIdle
    /\ DupIdle
    /\ prog = "submit"
    /\ pc = "check_branch"
    /\ args \in [year : {Year}, files_per_job : 1..MaxPerJob, test : BOOLEAN,
                  submit : BOOLEAN, allow_diff_local_repo : BOOLEAN,
                  site : {"lpc", "ucsd"}]
    /\ git \in [branch_exists : BOOLEAN, uncommitted : BOOLEAN, remote_matches : BOOLEAN]
    \* submit() is given its fileset, and reads the templates, after init_args
    /\ fileset = <<>>
    /\ templ = [jdl |-> {}, sh |-> {}]
    /\ before = NoCall
    /\ \E prior \in PriorPlans :
          /\ condor_dir = {File(<<"logs">>, "")} \cup PriorLogs(prior)
                              \cup Artifacts(Year, <<"QCD">>, prior.njobs)
          /\ descriptors = PriorDescriptors(prior)
          /\ launchers = PriorLaunchers(prior)
          /\ logs = PriorLogs(prior)
    /\ fi = 1
    /\ j = 0
    /\ i = -1
    /\ nsubmit = 0
    /\ stdout = <<>>
    /\ proxy = ""
    /\ rendered = <<>>
    /\ submitted = <<>>
    /\ exit_code = -1

\* lines 92-130: check_branch
CheckBranch ==
    /\ prog = "submit" /\ pc = "check_branch"
    /\ IF ~git.branch_exists
       THEN \* the assert of line 98 fails
            /\ pc' = "raised"
            /\ exit_code' = 1
            /\ stdout' = stdout
       ELSE /\ stdout' = stdout \o BranchMessages(git, args.allow_diff_local_repo)
            /\ IF \/ UncommittedRefused(git, args.allow_diff_local_repo)
                  \/ HashRefused(git, args.allow_diff_local_repo)
               THEN pc' = "exited" /\ exit_code' = 1
               ELSE pc' = "init_args" /\ exit_code' = exit_code
    /\ UNCHANGED <<prog, dupVars, scanVars, runVars, git, before, fileset, templ, fi, j, nsubmit, descriptors,
                   launchers, logs, proxy, rendered>>

\* lines 136-174: the rest of init_args; when it returns, submit() is called
\* with a fileset (lines 177-191) and finds the two templates on disk
InitArgs ==
    /\ prog = "submit" /\ pc = "init_args"
    /\ \E env \in Envs :
        LET r == ResolveProxy(args.site, env) IN
        IF r.ok
        THEN /\ proxy' = r.proxy
             /\ condor_dir' = condor_dir \cup {File(<<"logs">>, "")}
             /\ fileset' \in Filesets
             /\ templ' \in Templates
             /\ pc' = "loop"
             /\ exit_code' = exit_code
        ELSE /\ pc' = "raised"
             /\ exit_code' = 1
             /\ UNCHANGED <<proxy, condor_dir, fileset, templ>>
    /\ UNCHANGED <<prog, dupVars, args, sh_sizes, i, submitted, scanOnly, runVars, git, before, fi, j,
                   nsubmit, descriptors, launchers, logs, stdout, rendered>>

\* lines 192-202 and 246: the two for statements and the test-mode break take
\* the next job, or end submit()
JobLoop ==
    /\ prog = "submit" /\ pc = "loop"
    /\ IF fi > Len(fileset)
       THEN /\ pc' = "done"
            /\ exit_code' = 0
            /\ UNCHANGED <<fi, j>>
       ELSE IF /\ j < NJobs(fileset[fi].tot_files, args.files_per_job)
               /\ ~(args.test /\ j = 2)
       THEN /\ pc' = "job"
            /\ UNCHANGED <<fi, j, exit_code>>
       ELSE /\ fi' = fi + 1
            /\ j' = 0
            /\ pc' = "loop"
            /\ exit_code' = exit_code
    /\ UNCHANGED <<prog, dupVars, scanVars, runVars, git, before, fileset, templ, nsubmit, descriptors,
                   launchers, logs, stdout, proxy, rendered>>

\* a variant of lines 240-243 that submits whatever the flag says
CondorSubmitAlways(queue, flag, f) == Append(queue, f)

\* lines 240-243: condor_submit is called if args.submit is set
CondorSubmit(queue, flag, f) == IF flag THEN Append(queue, f) ELSE queue

\* a variant of lines 237-238 that leaves the file in place
UnlinkNever(files, f) == files

\* lines 237-238: a file that exists is unlinked
Unlink(files, f) == files \ {f}

\* lines 204-244: the body of the job loop
SubmitJob ==
    /\ prog = "submit" /\ pc = "job"
    /\ LET e == fileset[fi]
           localcondor == File(JobName(args.year, e.subsample, j), "jdl")
           localsh == File(JobName(args.year, e.subsample, j), "sh")
           jdl_args == JdlArgs("condor", args.year, e.subsample, j, proxy)
           sh_args == ShArgs(args.year, e.sample, e.subsample, j, args.files_per_job)
       IN
       IF ~Substitutes(templ.jdl, jdl_args)
       THEN \* line 207 raises KeyError, the descriptor is left empty
            /\ descriptors' = (localcondor :> Truncated) @@ descriptors
            /\ condor_dir' = condor_dir \cup {localcondor}
            /\ pc' = "raised"
            /\ exit_code' = 1
            /\ UNCHANGED <<launchers, rendered, logs, submitted, nsubmit, j>>
       ELSE IF ~Substitutes(templ.sh, sh_args)
       THEN \* line 234 raises KeyError, the launcher is left empty
            /\ descriptors' = (localcondor :> jdl_args) @@ descriptors
            /\ launchers' = (localsh :> Truncated) @@ launchers
            /\ rendered' = Append(rendered, localcondor)
            /\ condor_dir' = condor_dir \cup {localcondor, localsh}
            /\ pc' = "raised"
            /\ exit_code' = 1
            /\ UNCHANGED <<logs, submitted, nsubmit, j>>
       ELSE /\ descriptors' = (localcondor :> jdl_args) @@ descriptors
            /\ launchers' = (localsh :> sh_args) @@ launchers
            /\ rendered' = rendered \o <<localcondor, localsh>>
            /\ logs' = Unlink(logs, LogOf(localcondor))
            /\ condor_dir' = Unlink(condor_dir \cup {localcondor, localsh}, LogOf(localcondor))
            /\ submitted' = CondorSubmit(submitted, args.submit, localcondor)
            /\ nsubmit' = nsubmit + 1
            /\ j' = j + 1
            /\ pc' = "loop"
            /\ exit_code' = exit_code
    /\ UNCHANGED <<prog, dupVars, args, sh_sizes, i, scanOnly, runVars, git, before, fileset, templ, fi,
                   stdout, proxy>>

\* lines 177-191: submit() is called once more with the arguments of the call
\* that has just returned, in dry-run mode
SubmitAgain ==
    /\ prog = "submit" /\ pc = "done"
    /\ ~args.submit
    /\ ~before.called
    /\ before' = [called |-> TRUE, descriptors |-> descriptors, launchers |-> launchers,
                  condor_dir |-> condor_dir]
    /\ nsubmit' = 0
    /\ fi' = 1
    /\ j' = 0
    /\ rendered' = <<>>
    /\ pc' = "loop"
    /\ exit_code' = -1
    /\ UNCHANGED <<prog, dupVars, scanVars, runVars, git, fileset, templ, descriptors,
                   launchers, logs, stdout, proxy>>

-----------------------------------------------------------------------------
(* run_utils.py: run *)

\* the orders in which glob can list the fragments of a directory
Perms(S) ==
    {f \in [1..Cardinality(S) -> S] : \A x \in S : \E k \in 1..Cardinality(S) : f[k] = x}

\* a variant of line 302 that rounds down instead of taking the ceiling
NumBatchesFloor(n, batch_size) == n \div batch_size

\* line 302: int(np.ceil(len(parquet_files) / batch_size))
NumBatches(n, batch_size) ==
    IF n % batch_size = 0 THEN n \div batch_size ELSE (n \div batch_size) + 1

\* line 310: parquet_files[i * batch_size : (i + 1) * batch_size]
Batch(files, k, batch_size) == PySlice(files, k * batch_size, (k + 1) * batch_size)

\* lines 290, 303, 319, 325: the names of the files run() writes
PickleFile(filetag) == File(<<filetag>>, "pkl")
ManifestFile(filetag) == File(<<"num", "batches", filetag>>, "txt")
ParquetBatchFile(filetag, k) == File(<<"out", filetag, "batch", Str(k)>>, "parquet")
RootBatchFile(filetag, k) == File(<<"nano", "skim", filetag, "batch", Str(k)>>, "root")

Saving == args.save_parquet \/ args.save_root

InitRun ==
    /\ ScanIdle
    /\ SubmitIdle
    /\ DupIdle
    /\ prog = "run"
    /\ pc = "run_start"
    /\ args \in [batch_size : 1..MaxBatchSize, save_parquet : BOOLEAN,
                  save_root : BOOLEAN, filetag : {Str(0)}]
    /\ condor_dir = {}
    /\ submitted = <<>>
    /\ i = 0
    \* an earlier execution in the same working directory may have left a fragment
    /\ leftover \in {{}, {0}}
    /\ outparquet = leftover
    /\ parquet_files = <<>>
    /\ num_batches = 0
    /\ outfiles = {}
    /\ manifest = Dict({}, "")
    /\ batch_files = Dict({}, <<>>)
    /\ slept = 0

\* a variant of lines 246-254 that keeps what it finds in ./outparquet
PrepareDirKeep(saving, dir) == dir

\* lines 246-254: with an output format enabled, ./outparquet is removed if it
\* is there and made anew
PrepareDir(saving, dir) == IF saving THEN {} ELSE dir

\* lines 240-270: the local directories are prepared
RunStart ==
    /\ prog = "run" /\ pc = "run_start"
    /\ outparquet' = PrepareDir(Saving, outparquet)
    /\ pc' = "process"
    /\ i' = 0
    /\ UNCHANGED <<prog, leftover, dupVars, args, condor_dir, sh_sizes, submitted, scanOnly, submitVars,
                   parquet_files, num_batches, outfiles, manifest, batch_files, slept>>

\* a variant of line 281 that gives up after the second attempt
CanRetryOnce(k) == k < 1

\* line 281: attempt k (from 0) is followed by a wait and another attempt
CanRetry(k) == k < 2

\* lines 273-286: one attempt of the retry loop; the processor either produces
\* its fragments, or a file cannot be opened, or it fails otherwise
Process ==
    /\ prog = "run" /\ pc = "process"
    /\ \/ \E n \in 0..MaxFragments :
            /\ outparquet' = IF Saving THEN outparquet \cup (1..n) ELSE outparquet
            /\ pc' = "pickle"
            /\ UNCHANGED <<i, slept>>
       \/ \* FileNotFoundError
          IF CanRetry(i)
          THEN /\ slept' = slept + 1
               /\ i' = i + 1
               /\ pc' = "process"
               /\ UNCHANGED outparquet
          ELSE /\ pc' = "raised"
               /\ UNCHANGED <<i, slept, outparquet>>
       \/ \* any other exception
          /\ pc' = "error"
          /\ UNCHANGED <<i, slept, outparquet>>
    /\ UNCHANGED <<prog, leftover, dupVars, args, condor_dir, sh_sizes, submitted, scanOnly, submitVars,
                   parquet_files, num_batches, outfiles, manifest, batch_files>>

\* lines 288-293: the PrimaryResult is written
WritePickle ==
    /\ prog = "run" /\ pc = "pickle"
    /\ outfiles' = outfiles \cup {PickleFile(args.filetag)}
    /\ pc' = IF Saving THEN "combine" ELSE "done"
    /\ UNCHANGED <<prog, leftover, dupVars, args, condor_dir, sh_sizes, i, submitted, scanOnly, submitVars,
                   outparquet, parquet_files, num_batches, manifest, batch_files, slept>>

\* a variant of lines 303-304 that leaves the manifest unwritten
WriteNumBatchesNever(files, filetag, n) == files

\* lines 303-304: num_batches_{filetag}.txt is opened for writing and receives
\* the decimal text of num_batches
WriteNumBatches(files, filetag, n) == (ManifestFile(filetag) :> Str(n)) @@ files

\* lines 298-304: the fragments are listed and the manifest is written
WriteManifest ==
    /\ prog = "run" /\ pc = "combine"
    /\ \E order \in Perms(outparquet) :
        /\ parquet_files' = order
        /\ num_batches' = NumBatches(Len(order), args.batch_size)
        /\ manifest' = WriteNumBatches(manifest, args.filetag,
                                       NumBatches(Len(order), args.batch_size))
    /\ i' = 0
    /\ pc' = "batches"
    /\ UNCHANGED <<prog, leftover, dupVars, args, condor_dir, sh_sizes, submitted, scanOnly, submitVars,
                   outparquet, outfiles, batch_files, slept>>

\* lines 308-332: the body of the batch loop, for batch i
WriteBatch ==
    /\ prog = "run" /\ pc = "batches"
    /\ i < num_batches
    /\ LET batch == Batch(parquet_files, i, args.batch_size)
           pq == IF args.save_parquet
                 THEN (ParquetBatchFile(args.filetag, i) :> batch) ELSE Dict({}, <<>>)
           rt == IF args.save_root
                 THEN (RootBatchFile(args.filetag, i) :> batch) ELSE Dict({}, <<>>)
       IN batch_files' = pq @@ rt @@ batch_files
    /\ i' = i + 1
    /\ UNCHANGED <<prog, leftover, dupVars, pc, args, condor_dir, sh_sizes, submitted, scanOnly, submitVars,
                   outparquet, parquet_files, num_batches, outfiles, manifest, slept>>

\* line 308: the batch loop ends and run() returns
RunReturn ==
    /\ prog = "run" /\ pc = "batches"
    /\ i >= num_batches
    /\ pc' = "done"
    /\ UNCHANGED <<prog, dupVars, scanVars, submitVars, runVars>>

-----------------------------------------------------------------------------
(* Two executions of one shard writing to the remote store.  The copy of the
   outputs to the remote store is done by the launcher template, which names
   the units as run() does and writes them one at a time. *)

Workers == {1, 2}

\* what an execution puts into the units it writes, other than the manifest
Writer(w) == IF w = 1 THEN "first" ELSE "second"

\* the shard executed twice, and another shard of the same sample
DupShard == 0
OtherShard == 1

\* run_utils.py lines 290-319: the units an execution of shard filetag leaves
\* for n fragments, in the order run() writes them, and the content of each
RunUnits(filetag, n, batch_size) ==
    <<PickleFile(filetag), ManifestFile(filetag)>> \o
        [k \in 1..NumBatches(n, batch_size) |-> ParquetBatchFile(filetag, k - 1)]

UnitContent(u, n, batch_size, writer) ==
    IF u.ext = "txt" THEN Str(NumBatches(n, batch_size)) ELSE writer

RunOutputs(filetag, n, batch_size, writer) ==
    [k \in 1..Len(RunUnits(filetag, n, batch_size)) |->
        [unit |-> RunUnits(filetag, n, batch_size)[k],
         content |-> UnitContent(RunUnits(filetag, n, batch_size)[k], n, batch_size, writer)]]

\* the outputs of the other shard, written by an earlier execution
OtherOutputs == RunOutputs(Str(OtherShard), 1, 1, "earlier")

\* RemoteStore.write(path, bytes)
Write(st, u, content) ==
    [f \in DOMAIN st \cup {u} |-> IF f = u THEN content ELSE st[f]]

RECURSIVE WriteAll(_, _)
WriteAll(st, outs) ==
    IF outs = <<>> THEN st
    ELSE WriteAll(Write(st, Head(outs).unit, Head(outs).content), Tail(outs))

\* check_jobs.py lines 125-133: shard -> manifest count, read from jobchecks
ExpectedParquets(st) ==
    [n \in {ToInt(f.name[3]) : f \in {g \in DOMAIN st : g.ext = "txt"}} |->
        ToInt(st[ManifestFile(Str(n))])]

\* check_jobs.py lines 135-142: shard -> batch indices listed in parquet
OutsParquet(st) ==
    [n \in {ToInt(f.name[2]) : f \in {g \in DOMAIN st : g.ext = "parquet"}} |->
        {ToInt(f.name[4]) : f \in {g \in DOMAIN st : g.ext = "parquet" /\ ToInt(g.name[2]) = n}}]

\* check_jobs.py lines 151-153: the shard indices listed in pickles
OutsPickles(st) ==
    {ToInt(f.name[Len(f.name)]) : f \in {g \in DOMAIN st : g.ext = "pkl"}}

InitDup ==
    /\ ScanIdle
    /\ SubmitIdle
    /\ RunIdle
    /\ prog = "dup"
    /\ pc = "transfer"
    /\ args = [processor |-> "skimmer", year |-> Year,
               submit_missing |-> FALSE, check_running |-> FALSE]
    /\ condor_dir = {File(<<"logs">>, "")} \cup Artifacts(Year, <<"QCD">>, 2)
    /\ submitted = <<>>
    /\ i = -1
    \* the other shard has finished with one batch
    /\ store = WriteAll(Dict({}, ""), OtherOutputs)
    /\ \E n \in 0..MaxDupFragments, b \in [Workers -> 1..MaxDupFragments] :
          todo = [w \in Workers |-> RunOutputs(Str(DupShard), n, b[w], Writer(w))]

\* an execution copies its next unit to the remote store
Transfer ==
    /\ prog = "dup" /\ pc = "transfer"
    /\ \E w \in Workers :
          /\ todo[w] # <<>>
          /\ store' = Write(store, Head(todo[w]).unit, Head(todo[w]).content)
          /\ todo' = [todo EXCEPT ![w] = Tail(todo[w])]
    /\ UNCHANGED <<prog, pc, scanVars, submitVars, runVars>>

\* check_jobs.py lines 59-157: with both executions finished, a scan starts
\* and reads the listings of the sample
DupSetup ==
    /\ prog = "dup" /\ pc = "transfer"
    /\ \A w \in Workers : todo[w] = <<>>
    /\ samples' = <<<<"QCD">>>>
    /\ jdl_dict' = JdlDict(<<<<"QCD">>>>, Jdls(condor_dir), args.year)
    /\ dirs' = [parquet |-> TRUE, jobchecks |-> TRUE, pickles |-> TRUE]
    /\ expected_parquets' = ExpectedParquets(store)
    /\ outs_parquet' = OutsParquet(store)
    /\ outs_pickles' = OutsPickles(store)
    /\ i' = 0
    /\ pc' = "shard"
    /\ UNCHANGED <<prog, dupVars, submitVars, runVars, args, condor_dir, sh_sizes, submitted,
                   running_jobs, running_txt, si, printed, missing_files, err_files>>

\* check_jobs.py lines 158-189: one iteration of the per-shard loop
DupCheckShard ==
    /\ prog = "dup" /\ pc = "shard"
    /\ IF ManifestKeyError(args.processor, i, expected_parquets, outs_parquet)
       THEN /\ pc' = "aborted"
            /\ UNCHANGED <<i, missing_files, err_files, submitted>>
       ELSE /\ IF \/ ~CheckPickles(i, outs_pickles)
                  \/ ~CheckParquet(args.processor, i, expected_parquets, outs_parquet)
               THEN Flag(samples[si], <<i>>)
               ELSE UNCHANGED <<missing_files, err_files, submitted>>
            /\ IF i + 1 < jdl_dict[samples[si]]
               THEN i' = i + 1 /\ pc' = "shard"
               ELSE i' = i /\ pc' = "done"
    /\ UNCHANGED <<prog, dupVars, submitVars, runVars, args, condor_dir, sh_sizes, samples,
                   jdl_dict, running_jobs, running_txt, si, dirs, expected_parquets, outs_parquet,
                   outs_pickles, printed>>

-----------------------------------------------------------------------------
(* The names of one shard, written by the Submitter and by the execution of
   the shard, and read back by the scan. *)

\* the other sample of the model, and the other year
OtherSample(sample) == CHOOSE t \in Samples : t # sample
TheOtherYear(year) == IF year = Year THEN OtherYear ELSE Year

\* descriptors on disk before the shard is planned: the next shard of the other
\* sample, and the next shard of the same sample in the other year
Neighbours(year, sample, n) ==
    {File(JobName(year, OtherSample(sample), n + 1), "jdl"),
     File(JobName(TheOtherYear(year), sample, n + 1), "jdl")}

InitNames ==
    /\ ScanIdle
    /\ SubmitIdle
    /\ RunIdle
    /\ DupIdle
    /\ prog = "names"
    /\ pc = "plan"
    /\ args \in [year : {Year, OtherYear}, sample : Samples,
                  shard : 0..MaxJobs, batch : 0..MaxBatches]
    /\ condor_dir = Neighbours(args.year, args.sample, args.shard)
    /\ submitted = <<>>
    /\ i = -1

\* submit_utils.py lines 204-207: the descriptor of the shard is written
WriteDescriptor ==
    /\ prog = "names" /\ pc = "plan"
    /\ condor_dir' = condor_dir
           \cup {File(JobName(args.year, args.sample, args.shard), "jdl")}
    /\ pc' = "execute"
    /\ UNCHANGED <<prog, dupVars, submitVars, runVars, args, sh_sizes, i, submitted, scanOnly>>

\* run_utils.py lines 290-319: the execution of the shard, given filetag = jobid
\* (submit_utils.py line 230), leaves its units, with batches 0..args.batch
WriteUnits ==
    /\ prog = "names" /\ pc = "execute"
    /\ store' = WriteAll(store, RunOutputs(Str(args.shard), args.batch + 1, 1, "first"))
    /\ pc' = "scan"
    /\ UNCHANGED <<prog, todo, submitVars, runVars, scanVars>>

\* check_jobs.py lines 59-70 and 125-153: the scan of args.year lists the
\* descriptors and the directories of the sample and parses the names
ParseNames ==
    /\ prog = "names" /\ pc = "scan"
    /\ \E listing \in {l \in Listings : Len(l) = Cardinality(Samples)} :
          /\ samples' = listing
          /\ jdl_dict' = JdlDict(listing, Jdls(condor_dir), args.year)
    /\ expected_parquets' = ExpectedParquets(store)
    /\ outs_parquet' = OutsParquet(store)
    /\ outs_pickles' = OutsPickles(store)
    /\ pc' = "done"
    /\ UNCHANGED <<prog, dupVars, submitVars, runVars, args, condor_dir, sh_sizes, i, submitted,
                   running_jobs, running_txt, si, dirs, printed, missing_files, err_files>>

NextNames == WriteDescriptor \/ WriteUnits \/ ParseNames
SpecNames == InitNames /\ [][NextNames]_vars

-----------------------------------------------------------------------------

Init == InitResize \/ InitSubmit \/ InitRun \/ InitDup \/ InitNames

Next ==
    \/ Setup
    \/ BeginSample
    \/ CheckShard
    \/ NextShard
    \/ Report
    \/ Rescan
    \/ CheckBranch
    \/ InitArgs
    \/ JobLoop
    \/ SubmitJob
    \/ SubmitAgain
    \/ RunStart
    \/ Process
    \/ WritePickle
    \/ WriteManifest
    \/ WriteBatch
    \/ RunReturn
    \/ Transfer
    \/ DupSetup
    \/ DupCheckShard
    \/ WriteDescriptor
    \/ WriteUnits
    \/ ParseNames

Spec == Init /\ [][Next]_vars

\* one specification per program
NextCheck == Setup \/ BeginSample \/ CheckShard \/ NextShard \/ Report \/ Rescan
SpecCheck == InitCheck /\ [][NextCheck]_vars
NextResize == Setup \/ BeginSample \/ CheckShard \/ NextShard \/ Report
SpecResize == InitResize /\ [][NextResize]_vars

NextSubmit == CheckBranch \/ InitArgs \/ JobLoop \/ SubmitJob \/ SubmitAgain
SpecSubmit == InitSubmit /\ [][NextSubmit]_vars

NextRun == RunStart \/ Process \/ WritePickle \/ WriteManifest \/ WriteBatch \/ RunReturn
SpecRun == InitRun /\ [][NextRun]_vars

NextDup == Transfer \/ DupSetup \/ DupCheckShard
SpecDup == InitDup /\ [][NextDup]_vars

-----------------------------------------------------------------------------
(* Properties of the Reconciler scan (check_jobs.py) *)

\* the scan has just examined shard i of samples[si]
Examined == prog = "check" /\ pc = "checked"

\* the scan has just finished the body of the sample loop for samples[si - 1],
\* and dirs is what it found for that sample
SampleDone == prog = "check" /\ pc \in {"sample", "report", "done"} /\ si > 1

NonTrigger == args.processor # "trigger"

InList(sample, n) == jdl_file(args.year, sample, n) \in Range(missing_files)

Occurrences(seq, x) == Cardinality({k \in 1..Len(seq) : seq[k] = x})

\* the remote store, as listed for the shard under examination
PrimaryPresent == i \in outs_pickles
ManifestPresent == i \in DOMAIN expected_parquets
BatchesPresent == IF i \in DOMAIN outs_parquet THEN outs_parquet[i] ELSE {}
ShardRunning == IsRunning(running_jobs, args.year, samples[si], i)

\* "complete" as the data model defines it
Complete ==
    /\ PrimaryPresent
    /\ ManifestPresent
    /\ Cardinality(BatchesPresent) = expected_parquets[i]

\* the batch indices below the manifest count that the store lacks
AbsentBatches == {b \in 0..(expected_parquets[i] - 1) : b \notin BatchesPresent}

\* C1: in a scan of a non-trigger processor with running-job checking off, an
\* examined shard is in the resubmission list if and only if it is not complete
\* (PrimaryResult present and as many batches present as the manifest counts).
C1_ListedIffIncomplete ==
    (Examined /\ NonTrigger /\ ~args.check_running)
        => (InList(samples[si], i) <=> ~Complete)

\* how the scan classifies a shard when no job is running: something is missing
\* if the PrimaryResult is absent, or (non-trigger) no batch is listed or a batch
\* below the manifest count is absent
NeedsRerun ==
    \/ ~PrimaryPresent
    \/ /\ NonTrigger
       /\ \/ BatchesPresent = {}
          \/ AbsentBatches # {}

\* C5: with running-job checking on, no shard of the RunningSet snapshot is in
\* the resubmission list or resubmitted, whatever it lacks and also when the
\* parquet directory of its sample is absent; a shard outside the RunningSet
\* is listed exactly when it would be with an empty RunningSet.
C5_RunningSuppressed ==
    prog = "check" =>
        /\ \A k \in 1..Len(missing_files) : missing_files[k].name \notin running_jobs
        /\ \A k \in 1..Len(submitted) : submitted[k].name \notin running_jobs
        /\ (Examined /\ ~ShardRunning) => (InList(samples[si], i) <=> NeedsRerun)
        /\ (SampleDone /\ NonTrigger /\ ~dirs.parquet /\ samples[si - 1] \in DOMAIN jdl_dict)
              => \A n \in 0..(jdl_dict[samples[si - 1]] - 1) :
                    InList(samples[si - 1], n)
                        <=> ~IsRunning(running_jobs, args.year, samples[si - 1], n)

\* a running shard of the second sample that lacks its PrimaryResult has been
\* examined and suppressed, after a shard of the first sample was listed
C5_Witness ==
    /\ Examined /\ args.check_running /\ args.submit_missing
    /\ ShardRunning /\ ~PrimaryPresent
    /\ printed.running
    /\ si = 2 /\ NonTrigger
    /\ Len(missing_files) > 0

\* C7: the scan never aborts, whatever the descriptors and the remote store hold.
C7_NeverAborts == prog = "check" => pc # "aborted"

\* C8: when an output directory of a sample (parquet for a non-trigger
\* processor, pickles for any) is absent, every shard of the sample with a
\* descriptor is reported exactly once, except the running ones.
C8_AbsentDirReportsAll ==
    (/\ SampleDone
     /\ (NonTrigger /\ ~dirs.parquet) \/ ~dirs.pickles
     /\ samples[si - 1] \in DOMAIN jdl_dict)
        => \A n \in 0..(jdl_dict[samples[si - 1]] - 1) :
              Occurrences(missing_files, jdl_file(args.year, samples[si - 1], n))
                  = IF IsRunning(running_jobs, args.year, samples[si - 1], n) THEN 0 ELSE 1

\* the batch indices the scan printed as missing for the examined shard
ReportedMissing ==
    IF printed.all THEN 0..(expected_parquets[i] - 1) ELSE printed.batches

\* C9: for a shard with PrimaryResult and manifest (count M), the missing batch
\* indices reported are exactly the j in 0..M-1 whose batch is absent, and the
\* shard is flagged if and only if that set is non-empty.
C9_MissingBatchesExact ==
    (Examined /\ NonTrigger /\ PrimaryPresent /\ ManifestPresent /\ ~ShardRunning)
        => /\ ReportedMissing = AbsentBatches
           /\ InList(samples[si], i) <=> AbsentBatches # {}

\* the scan has run the per-shard body for shard i, to its end or to an error
BodyRan ==
    /\ prog = "check"
    /\ \/ pc = "checked"
       \/ pc = "aborted" /\ i \in DOMAIN outs_parquet

\* C10: a shard whose manifest is absent, whatever else of it is present, is
\* reported as needing resubmission (and the scan goes on to the other shards).
C10_NoManifestFlagged ==
    (BodyRan /\ NonTrigger /\ ~ManifestPresent /\ ~ShardRunning)
        => (pc = "checked" /\ InList(samples[si], i))

-----------------------------------------------------------------------------
(* Properties of submit() and check_branch() *)

\* the least n with n * L >= F
CeilOf(F, L) == CHOOSE n \in 0..F : n * L >= F /\ \A m \in 0..(n - 1) : m * L < F

PlannedShards(e) ==
    LET c == CeilOf(e.tot_files, args.files_per_job)
    IN IF args.test /\ c > 2 THEN 2 ELSE c

RECURSIVE TotalPlanned(_)
TotalPlanned(k) == IF k = 0 THEN 0 ELSE PlannedShards(fileset[k]) + TotalPlanned(k - 1)

\* the files of one kind that this run rendered for a subsample
RenderedFor(e, ext) ==
    {f \in Range(rendered) :
        /\ f.ext = ext
        /\ SubSeq(f.name, 1, Len(f.name) - 1) = <<args.year>> \o e.subsample}

SubmitDone == prog = "submit" /\ pc = "done"

ShardFiles(e, n) ==
    LET sh == launchers[File(JobName(args.year, e.subsample, n), "sh")]
    IN RunFnames(Fnames(e.tot_files), sh.starti, sh.endi)

RECURSIVE ConcatShards(_, _)
ConcatShards(e, n) == IF n = 0 THEN <<>> ELSE ConcatShards(e, n - 1) \o ShardFiles(e, n - 1)

\* C4: with test mode off, when submit() has ended, the launchers of a
\* subsample carry the ranges [j*L, (j+1)*L), and the files get_fileset
\* resolves them to, concatenated in shard order, are the ordered file list of
\* the subsample: no file is dropped and none is taken twice.
C4_ShardsPartition ==
    (SubmitDone /\ ~args.test) =>
        \A k \in 1..Len(fileset) :
            LET e == fileset[k]
                n == Cardinality(RenderedFor(e, "sh"))
            IN /\ \A m \in 0..(n - 1) :
                    LET sh == launchers[File(JobName(args.year, e.subsample, m), "sh")]
                    IN /\ sh.starti = m * args.files_per_job
                       /\ sh.endi = (m + 1) * args.files_per_job
               /\ ConcatShards(e, n) = Fnames(e.tot_files)
               /\ \A x \in 1..e.tot_files :
                    Cardinality({m \in 0..(n - 1) : x \in Range(ShardFiles(e, m))}) = 1

C4_Witness ==
    /\ SubmitDone
    /\ ~args.test
    /\ \E k \in 1..Len(fileset) :
          /\ fileset[k].tot_files > 2 * args.files_per_job
          /\ fileset[k].tot_files % args.files_per_job # 0
          /\ args.files_per_job > 1

Mismatch == prog = "submit" /\ pc # "check_branch" /\ ~git.remote_matches

\* C6: when the local and the remote revision differ, without the override
\* the submit path ends with exit status 1 before any descriptor is rendered
\* or submitted; with the override (and an existing branch) it prints the
\* mismatch warning, is not refused, and a run that reaches the end of
\* submit() has rendered and, if asked, submitted the whole plan.
C6_RevisionGate ==
    Mismatch =>
        /\ ~args.allow_diff_local_repo =>
              /\ pc \in {"exited", "raised"}
              /\ git.branch_exists => pc = "exited"
              /\ exit_code = 1
              /\ rendered = <<>>
              /\ submitted = <<>>
              /\ nsubmit = 0
        /\ (args.allow_diff_local_repo /\ git.branch_exists) =>
              /\ pc # "exited"
              /\ \E k \in 1..(Len(stdout) - 1) :
                    stdout[k] = MsgMismatch /\ stdout[k + 1] = MsgProceed
              /\ pc = "done" =>
                    /\ nsubmit = TotalPlanned(Len(fileset))
                    /\ args.submit => Len(submitted) = nsubmit

C6_Witness ==
    /\ Mismatch
    /\ pc = "done"
    /\ args.allow_diff_local_repo
    /\ ~git.uncommitted
    /\ args.submit
    /\ Len(submitted) > 1

-----------------------------------------------------------------------------
(* Properties of run() *)

RunDone == prog = "run" /\ pc = "done" /\ Saving

\* the consolidated files of one format
BatchFilesOf(ext) == {f \in DOMAIN batch_files : f.ext = ext}

\* C2: when run() has ended with n fragments in the local fragment directory
\* and batch size B, the manifest holds ceil(n/B), every enabled output format
\* has exactly the batches 0..ceil(n/B)-1, each batch is built from at least
\* one and at most B fragments, and every fragment is in exactly one batch of
\* the format; with n = 0 there is no batch file and the manifest holds 0.
C2_BatchingExact ==
    RunDone =>
        LET n == Cardinality(outparquet)
            K == CeilOf(n, args.batch_size)
            Exact(ext, name(_)) ==
                /\ BatchFilesOf(ext) = {name(b) : b \in 0..(K - 1)}
                /\ \A b \in 0..(K - 1) :
                      /\ Len(batch_files[name(b)]) \in 1..args.batch_size
                      /\ Range(batch_files[name(b)]) \subseteq outparquet
                /\ \A x \in outparquet :
                      Cardinality({<<b, q>> \in (0..(K - 1)) \X (1..args.batch_size) :
                                      /\ q <= Len(batch_files[name(b)])
                                      /\ batch_files[name(b)][q] = x}) = 1
            ParquetName(b) == ParquetBatchFile(args.filetag, b)
            RootName(b) == RootBatchFile(args.filetag, b)
        IN /\ DOMAIN manifest = {ManifestFile(args.filetag)}
           /\ ToInt(manifest[ManifestFile(args.filetag)]) = K
           /\ IF args.save_parquet THEN Exact("parquet", ParquetName)
              ELSE BatchFilesOf("parquet") = {}
           /\ IF args.save_root THEN Exact("root", RootName)
              ELSE BatchFilesOf("root") = {}
           /\ (n = 0) => DOMAIN batch_files = {}

C2_Witness ==
    /\ RunDone
    /\ args.save_parquet
    /\ args.batch_size > 1
    /\ Cardinality(outparquet) > args.batch_size
    /\ Cardinality(outparquet) % args.batch_size # 0
    /\ slept > 0

-----------------------------------------------------------------------------
(* Further properties of the Reconciler scan *)

\* C11: an examined shard of a non-trigger processor that is not running, has
\* its PrimaryResult and no batch file, is listed for resubmission if its
\* manifest is absent and is not listed if its manifest records 0.
C11_ZeroFragmentsComplete ==
    (/\ Examined /\ NonTrigger /\ ~ShardRunning
     /\ PrimaryPresent
     /\ BatchesPresent = {}
     /\ ManifestPresent => expected_parquets[i] = 0)
        => (InList(samples[si], i) <=> ~ManifestPresent)

-----------------------------------------------------------------------------
(* Further properties of submit() *)

IsJdl(f) == f.ext = "jdl"

\* C12: in submit(), condor_submit has been called for exactly the descriptors
\* rendered so far, once each and in order, if the submit flag is set, and not
\* at all otherwise; with either setting every rendered artifact is on disk and
\* the total reported at the end is the number of planned shards (in a run
\* that no error has ended).
C12_SubmitOptIn ==
    (prog = "submit" /\ pc # "raised") =>
        /\ submitted = IF args.submit THEN SelectSeq(rendered, IsJdl) ELSE <<>>
        /\ Len(rendered) = 2 * nsubmit
        /\ Range(rendered) \subseteq condor_dir
        /\ Range(rendered) \subseteq (DOMAIN descriptors \cup DOMAIN launchers)
        /\ pc = "done" => nsubmit = TotalPlanned(Len(fileset))

C12_Witness ==
    /\ SubmitDone
    /\ ~args.submit
    /\ ~args.test
    /\ nsubmit > 2
    /\ submitted = <<>>
    /\ Len(rendered) = 2 * nsubmit

-----------------------------------------------------------------------------
(* Further properties of run() *)

NothingWritten ==
    /\ outfiles = {}
    /\ DOMAIN manifest = {}
    /\ DOMAIN batch_files = {}

\* the retry behaviour of run() with at most r retries after the first attempt
RetryContract(r) ==
    prog = "run" =>
        /\ slept <= r
        \* one wait of 60 seconds before each retry, and none after a success
        /\ pc \in {"process", "raised", "error", "pickle"} => slept = i
        \* a not-found error is propagated only when the retries are used up
        /\ pc = "raised" => (slept = r /\ NothingWritten)
        \* any other error ends run() at any attempt, with nothing written
        /\ pc = "error" => NothingWritten
        /\ pc \in {"run_start", "process"} => NothingWritten

\* C13 as stated: the not-found error is propagated only after 3 retries, each
\* preceded by a wait
C13_ThreeRetries == RetryContract(3)

\* C13: run() makes up to 3 attempts, that is up to 2 retries, each preceded
\* by one wait; a not-found error is propagated only at the third failed
\* attempt and then nothing is written; a success stops the retrying; any
\* other error ends run() at once with nothing written.
C13_ThreeAttempts == RetryContract(2)

C13_Witness ==
    /\ prog = "run"
    /\ pc = "raised"
    /\ slept = 2
    /\ i = 2
    /\ NothingWritten

-----------------------------------------------------------------------------
(* Properties of two concurrent executions of one shard *)

\* the shard a unit of the remote store belongs to
ShardOf(u) ==
    ToInt(IF u.ext = "pkl" THEN u.name[Len(u.name)]
          ELSE IF u.ext = "txt" THEN u.name[3] ELSE u.name[2])

UnitsOf(st, n) == {u \in DOMAIN st : ShardOf(u) = n}

\* C14: while and after two executions of shard 0 copy their outputs in any
\* interleaving, every unit in the remote store written by one of them is named
\* by shard 0, the units of the other shard are as they were, and the scan that
\* runs once both have finished ends normally with shard 0 not listed for
\* resubmission.
C14_DuplicateBenign ==
    prog = "dup" =>
        /\ \A u \in DOMAIN store :
              store[u] \in {Writer(w) : w \in Workers} => ShardOf(u) = DupShard
        /\ \A k \in 1..Len(OtherOutputs) :
              LET o == OtherOutputs[k]
              IN o.unit \in DOMAIN store /\ store[o.unit] = o.content
        /\ UnitsOf(store, OtherShard)
              = {OtherOutputs[k].unit : k \in 1..Len(OtherOutputs)}
        /\ pc # "aborted"
        /\ pc = "done" => jdl_file(args.year, <<"QCD">>, DupShard) \notin Range(missing_files)

-----------------------------------------------------------------------------
(* Properties of the descriptors on disk *)

DescriptorIndices(sample) == JdlIndices(Jdls(condor_dir), args.year, sample)

\* C15: at every point of a run of submit() that started from the disk an
\* earlier run left, the descriptor indices on disk of every (year, sample) are
\* 0..k-1 for some k, and the shard count the Reconciler computes for a
\* sample with descriptors is that k.
C15_IndicesContiguous ==
    prog = "submit" =>
        \A s \in Samples :
            LET idx == DescriptorIndices(s)
            IN /\ idx = 0..(Cardinality(idx) - 1)
               /\ idx # {} =>
                    JdlDict(<<s>>, Jdls(condor_dir), args.year)[s] = Cardinality(idx)
               /\ idx = {} => s \notin DOMAIN JdlDict(<<s>>, Jdls(condor_dir), args.year)

C15_Witness ==
    /\ SubmitDone
    /\ args.test
    /\ Cardinality(DescriptorIndices(<<"QCD">>)) = MaxFiles
    /\ Cardinality(DescriptorIndices(<<"QCD", "HT">>)) = 2
    /\ \E k \in 1..Len(fileset) :
          /\ fileset[k].subsample = <<"QCD">>
          /\ Cardinality(RenderedFor(fileset[k], "jdl")) = 2

-----------------------------------------------------------------------------
(* Properties of write_template *)

KeyMissing ==
    \/ ~(templ.jdl \subseteq JdlKeys)
    \/ ~(templ.sh \subseteq ShKeys)

\* C16: when a template has a placeholder that submit() gives no value for,
\* the run ends with an error in the first shard it renders: no shard is ever
\* completed or submitted, and the run reaches its end only if the plan has
\* no shard at all.
C16_MissingKeyRaises ==
    (prog = "submit" /\ KeyMissing) =>
        /\ submitted = <<>>
        /\ nsubmit = 0
        /\ Len(rendered) <= 1
        /\ j = 0
        /\ pc = "done" => TotalPlanned(Len(fileset)) = 0
        /\ (pc = "raised" /\ proxy # "") =>
              /\ exit_code = 1
              /\ TotalPlanned(fi) > 0
              /\ \A k \in 1..(fi - 1) : fileset[k].tot_files = 0

C16_Witness ==
    /\ prog = "submit"
    /\ pc = "raised"
    /\ templ.jdl \subseteq JdlKeys
    /\ ~(templ.sh \subseteq ShKeys)
    /\ args.submit
    /\ Len(rendered) = 1
    /\ fi = 2
    /\ fileset[2].tot_files > args.files_per_job
    /\ submitted = <<>>

-----------------------------------------------------------------------------
(* Properties of repeated calls of submit() *)

\* C17: when a second dry-run call of submit() with the arguments of the
\* first has returned, the local directory holds the same files, and every
\* descriptor and launcher has the content the first call left, so that every
\* shard has the same (starti, endi).
C17_Idempotent ==
    (SubmitDone /\ before.called) =>
        /\ condor_dir = before.condor_dir
        /\ descriptors = before.descriptors
        /\ launchers = before.launchers
        /\ \A f \in DOMAIN launchers :
              launchers[f] # Truncated =>
                 /\ launchers[f].starti = before.launchers[f].starti
                 /\ launchers[f].endi = before.launchers[f].endi

C17_Witness ==
    /\ SubmitDone
    /\ before.called
    /\ ~args.test
    /\ nsubmit > 2
    /\ Len(fileset) = 2
    /\ Len(rendered) = 2 * nsubmit
    /\ \E k \in 1..2 : fileset[k].tot_files % args.files_per_job # 0

-----------------------------------------------------------------------------
(* Properties of resubmission by the scan *)

\* C18: at every point of a scan, condor_submit has been called for no
\* descriptor if submit-missing is off, and otherwise for exactly the
\* descriptors of the resubmission list, once each and in the order of the
\* list; no descriptor is listed twice, and none of a running job or of a
\* complete shard is submitted.
C18_ResubmitOptIn ==
    prog = "check" =>
        /\ submitted = IF args.submit_missing THEN missing_files ELSE <<>>
        /\ \A k \in 1..Len(missing_files) :
              Occurrences(missing_files, missing_files[k]) = 1
        /\ \A k \in 1..Len(submitted) : submitted[k].name \notin running_jobs
        /\ (Examined /\ ~InList(samples[si], i)) =>
              jdl_file(args.year, samples[si], i) \notin Range(submitted)
        /\ (Examined /\ NonTrigger /\ Complete) =>
              jdl_file(args.year, samples[si], i) \notin Range(submitted)

\* the identifiers held by running_jobs.txt, whichever scan wrote the file
SnapshotOnDisk == RunningJobs(running_txt)

\* C19: the scan keeps no state between runs: the RunningSet it uses is the
\* snapshot taken in this scan, and the empty set when running-job checking is
\* off, whatever snapshot an earlier scan left behind; the resubmission list
\* holds only shards of the samples this scan has reached; and an examined shard
\* is listed exactly when this scan finds it outside the RunningSet with
\* something missing, so a shard that an earlier scan suppressed as running is
\* listed once it is out of the RunningSet and still lacks its outputs.
C19_NoStateBetweenScans ==
    prog = "check" =>
        /\ running_jobs = IF args.check_running /\ pc # "start"
                          THEN SnapshotOnDisk ELSE {}
        /\ pc = "start" => missing_files = <<>> /\ submitted = <<>>
        /\ \A k \in 1..Len(missing_files) :
              \E p \in 1..Len(samples) :
                  /\ p <= si
                  /\ \E n \in 0..MaxJobs :
                        missing_files[k] = jdl_file(args.year, samples[p], n)
        /\ Examined =>
              (InList(samples[si], i) <=> (~ShardRunning /\ NeedsRerun))

\* a scan run without running-job checking has examined a shard whose identifier
\* is in the snapshot an earlier scan left in running_jobs.txt, found its
\* PrimaryResult missing and listed it
C19_Witness ==
    /\ Examined /\ ~args.check_running
    /\ JobName(args.year, samples[si], i) \in SnapshotOnDisk
    /\ ~PrimaryPresent
    /\ InList(samples[si], i)

\* C20: in a check run with both resubmission and the batch-size change asked
\* for, every descriptor handed to condor_submit has a launcher that holds the
\* new batch size: no flagged shard is submitted while its launcher still holds
\* the old one.
C20_RewrittenBeforeSubmit ==
    (prog = "check" /\ args.submit_missing /\ args.change_batch_size # None) =>
        \A k \in 1..Len(submitted) :
            sh_sizes[ShFile(submitted[k])] = args.change_batch_size[1]

-----------------------------------------------------------------------------
(* Properties of the files run() leaves in its working directory *)

HasPrimary == PickleFile(args.filetag) \in outfiles
HasManifest == ManifestFile(args.filetag) \in DOMAIN manifest

\* C21: in every state of an execution of run(), also between two batches, the
\* manifest exists only once processing has ended and the PrimaryResult is
\* written; a batch file present implies the manifest present, and the manifest
\* present implies the PrimaryResult present; and once the batching stage has
\* ended the manifest exists and holds the number of batches written in each
\* enabled format.
C21_ManifestOrder ==
    prog = "run" =>
        /\ HasManifest => (HasPrimary /\ pc \in {"batches", "done"})
        /\ DOMAIN batch_files # {} => HasManifest
        /\ RunDone =>
              /\ HasManifest
              /\ args.save_parquet =>
                    ToInt(manifest[ManifestFile(args.filetag)])
                        = Cardinality(BatchFilesOf("parquet"))
              /\ args.save_root =>
                    ToInt(manifest[ManifestFile(args.filetag)])
                        = Cardinality(BatchFilesOf("root"))

\* the execution is between the first and the last of at least two batches: a
\* batch file is written, another is still to come
C21_Witness ==
    /\ prog = "run" /\ pc = "batches"
    /\ args.save_parquet
    /\ i >= 1 /\ i < num_batches
    /\ BatchFilesOf("parquet") # {}
    /\ HasManifest /\ HasPrimary

\* the fragments this execution has produced
OwnFragments == outparquet \ leftover

\* C28: with an output format enabled, once run() has prepared its directories
\* no fragment of an earlier execution is in the local fragment directory, and
\* the fragments listed, the manifest count and every batch are made of the
\* fragments this execution produced and of nothing else.
C28_FreshFragmentDir ==
    (prog = "run" /\ Saving /\ pc # "run_start") =>
        /\ outparquet \cap leftover = {}
        /\ pc \in {"batches", "done"} =>
              /\ Range(parquet_files) = OwnFragments
              /\ num_batches = CeilOf(Cardinality(OwnFragments), args.batch_size)
              /\ ToInt(manifest[ManifestFile(args.filetag)]) = num_batches
              /\ \A f \in DOMAIN batch_files :
                    Range(batch_files[f]) \subseteq OwnFragments

\* an execution that found a fragment of an earlier one in its working
\* directory has ended with batches of its own fragments
C28_Witness ==
    /\ RunDone
    /\ leftover # {}
    /\ OwnFragments # {}
    /\ DOMAIN batch_files # {}

-----------------------------------------------------------------------------
(* Further properties of submit() *)

\* C22: in submit(), the log <descriptor>.log of a shard is gone when the shard
\* is handed to condor_submit, so no descriptor that was submitted has a log of
\* an earlier attempt; the logs of shards that this call has not rendered are
\* as they were: the log of a shard of another year stays, in the first call
\* every earlier descriptor not yet rendered keeps its log, and in a repeated
\* call a descriptor not yet rendered has its log exactly if it had it when the
\* call began.
C22_StaleLogCleared ==
    prog = "submit" =>
        /\ \A k \in 1..Len(submitted) : LogOf(submitted[k]) \notin logs
        /\ StrayLog \in logs
        /\ \A d \in DOMAIN descriptors :
              (d \notin Range(rendered) /\ descriptors[d] # Truncated) =>
                  IF before.called
                  THEN LogOf(d) \in logs <=> LogOf(d) \in before.condor_dir
                  ELSE LogOf(d) \in logs

\* a shard that had a log of an earlier attempt has been submitted, while a
\* later shard of the earlier plan, not rendered by this call, keeps its log
C22_Witness ==
    /\ prog = "submit" /\ pc = "done"
    /\ args.submit
    /\ Len(submitted) > 0
    /\ LogOf(submitted[1]) \in PriorLogs([njobs |-> 1, files_per_job |-> MaxFiles])
    /\ \E d \in DOMAIN descriptors :
          /\ d \notin Range(submitted)
          /\ LogOf(d) \in logs

-----------------------------------------------------------------------------
(* Properties of the names *)

-----------------------------------------------------------------------------
(* Properties of the lists of the scan *)

\* the sample and the shard index a listed file names
SampleOf(f) == SubSeq(f.name, 2, Len(f.name) - 1)
IndexOf(f) == ToInt(f.name[Len(f.name)])

\* C24: at every point of a scan, no descriptor is in the resubmission list
\* twice, the shards of one sample are listed in ascending index order, the
\* error-log list is as long as the resubmission list and its entry k names the
\* shard of entry k, and no descriptor has been resubmitted twice.
C24_ListsWellFormed ==
    prog = "check" =>
        /\ \A k \in 1..Len(missing_files) :
              Occurrences(missing_files, missing_files[k]) = 1
        /\ \A k, l \in 1..Len(missing_files) :
              (k < l /\ SampleOf(missing_files[k]) = SampleOf(missing_files[l]))
                  => IndexOf(missing_files[k]) < IndexOf(missing_files[l])
        /\ Len(err_files) = Len(missing_files)
        /\ \A k \in 1..Len(missing_files) :
              /\ missing_files[k].ext = "jdl"
              /\ err_files[k].ext = "err"
              /\ err_files[k].name = missing_files[k].name
        /\ \A k \in 1..Len(submitted) :
              Occurrences(submitted, submitted[k]) = 1

\* a scan with resubmission on has ended with two shards of one sample and a
\* shard of another sample in its lists
C24_Witness ==
    /\ prog = "check" /\ pc = "done"
    /\ args.submit_missing
    /\ Len(missing_files) >= 3
    /\ \E k, l \in 1..Len(missing_files) :
          /\ k < l
          /\ SampleOf(missing_files[k]) = SampleOf(missing_files[l])
    /\ \E k, l \in 1..Len(missing_files) :
          SampleOf(missing_files[k]) # SampleOf(missing_files[l])

\* the samples that have a descriptor of the year of the scan on disk
PlannedSamples == {s \in Samples : JdlIndices(Jdls(condor_dir), args.year, s) # {}}

\* C25: when a scan has ended, every sample with a descriptor on disk has been
\* examined: a sample without a directory in the remote store has each of its
\* shards, up to the highest descriptor index, in the resubmission list, unless
\* the shard is running.
C25_PlannedSamplesExamined ==
    (prog = "check" /\ pc = "done") =>
        \A s \in PlannedSamples :
            s \notin Range(samples) =>
                \A n \in 0..Max(JdlIndices(Jdls(condor_dir), args.year, s)) :
                    \/ jdl_file(args.year, s, n) \in Range(missing_files)
                    \/ IsRunning(running_jobs, args.year, s, n)

-----------------------------------------------------------------------------
(* Properties of the descriptors successive plans leave *)

\* the number of shards the scan expects for a subsample, from the descriptors
\* on disk (0 if there is none)
ExpectedShards(subsample) ==
    LET d == JdlDict(<<subsample>>, Jdls(condor_dir), args.year)
    IN IF subsample \in DOMAIN d THEN d[subsample] ELSE 0

\* C26: when submit() has ended, over whatever an earlier plan left on disk,
\* the number of shards the scan expects for each subsample of the fileset
\* (highest descriptor index + 1) is the number of shards of this plan.
C26_ExpectationMatchesPlan ==
    SubmitDone =>
        \A k \in 1..Len(fileset) :
            ExpectedShards(fileset[k].subsample) = PlannedShards(fileset[k])

-----------------------------------------------------------------------------
(* Properties of a failed render *)

\* C27: when submit() has ended with an error because a template has a
\* placeholder without value, no descriptor and no launcher on disk is empty:
\* the artifact the failed render was to write is as it was before the call.
C27_FailedRenderKeepsDisk ==
    (prog = "submit" /\ pc = "raised" /\ KeyMissing) =>
        /\ \A f \in DOMAIN descriptors : descriptors[f] # Truncated
        /\ \A f \in DOMAIN launchers : launchers[f] # Truncated

====
